---- MODULE Spec2Model ----
(***************************************************************************)
(* A model of the Windmill bank-email flow scripts:                         *)
(*   "Parse transaction details from email bodies.py"   (parser)           *)
(*   "Categorize transactions by merchant keywords.py"  (categorizer)      *)
(*   "Fetch unread bank transaction emails via IMAP.py" (fetch)            *)
(*   "Upload categorized transactions to Google Sheets.py" (upload)        *)
(*   "Mark processed emails as read in Gmail.py"        (mark)             *)
(* Texts are TLA+ strings; Len, SubSeq and \o act on them character by     *)
(* character.  Python's None is the model value None; a key that a dict    *)
(* does not hold is the model value Missing.                               *)
(***************************************************************************)
EXTENDS Integers, Sequences, FiniteSets, TLC

VARIABLES
    script,        \* which script's main is running: "parse", "categorize", "fetch",
                   \* "upload", "mark", or "clean_html" for calls of that function
    pc,            \* "start" before main's loop, "loop" while main iterates,
                   \* "returned" / "raised" after
    emails,        \* parser main: the argument; fetch main: the list returned
    idx,           \* number of loop iterations completed by the running main
    bank_id,       \* parser main: local of the last iteration
    parsed,        \* parser main: local of the last iteration
    log,           \* parser main: what each iteration printed
    transactions,  \* parser main: the list returned; categorizer and upload main: the argument
    categorized,   \* categorizer main: the list returned
    max_emails,        \* fetch main: the argument
    message_numbers,   \* fetch main: what mail.search returns, [status, data]
    msg_ids,           \* fetch main: local
    rows,              \* upload main: local
    response,          \* upload main: the status code of the append request
    result,            \* upload and mark main: the dict returned
    email_ids,         \* mark main: the argument
    processed_count,   \* mark main: local
    failed_count,      \* mark main: local
    stores,            \* mark main: the ids mail.store was called with, in call order
    clean_arg,         \* clean_html: the argument of the last call
    clean_ret          \* clean_html: the value the last call returned

flow_vars == <<max_emails, message_numbers, msg_ids, rows, response, result, email_ids,
               processed_count, failed_count, stores, clean_arg, clean_ret>>

vars == <<script, pc, emails, idx, bank_id, parsed, log, transactions, categorized,
          max_emails, message_numbers, msg_ids, rows, response, result, email_ids,
          processed_count, failed_count, stores, clean_arg, clean_ret>>

None == "<None>"
Missing == "<missing>"

(***************************************************************************)
(* Characters and strings                                                  *)
(***************************************************************************)

ch(t, i) == SubSeq(t, i, i)

Chars(s) == {ch(s, i) : i \in 1..Len(s)}

Digit == Chars("0123456789")
LowerAZ == Chars("abcdefghijklmnopqrstuvwxyz")
UpperAZ == Chars("ABCDEFGHIJKLMNOPQRSTUVWXYZ")
Space == {" ", "\t", "\n", "\r", "\f"}

UpperLetters == "ABCDEFGHIJKLMNOPQRSTUVWXYZÁÉÍÓÚÑ"
LowerLetters == "abcdefghijklmnopqrstuvwxyzáéíóúñ"

LowerMap ==
    [c \in Chars(UpperLetters) |->
        ch(LowerLetters, CHOOSE i \in 1..Len(UpperLetters) : ch(UpperLetters, i) = c)]

\* str.lower() of one character
LowerChar(c) == IF c \in DOMAIN LowerMap THEN LowerMap[c] ELSE c

\* str.lower(), character by character
RECURSIVE Lower(_)
Lower(s) ==
    IF Len(s) = 0 THEN ""
    ELSE IF Len(s) = 1 THEN LowerChar(s)
    ELSE Lower(SubSeq(s, 1, Len(s) \div 2)) \o Lower(SubSeq(s, Len(s) \div 2 + 1, Len(s)))

\* Python's  kw in text
Contains(kw, text) ==
    \E i \in 1..(Len(text) - Len(kw) + 1) : SubSeq(text, i, i + Len(kw) - 1) = kw

\* str.strip()
RECURSIVE LStrip(_)
LStrip(s) == IF Len(s) > 0 /\ ch(s, 1) \in Space THEN LStrip(SubSeq(s, 2, Len(s))) ELSE s
RECURSIVE RStrip(_)
RStrip(s) ==
    IF Len(s) > 0 /\ ch(s, Len(s)) \in Space THEN RStrip(SubSeq(s, 1, Len(s) - 1)) ELSE s
Strip(s) == LStrip(RStrip(s))

\* s[:n]
Prefix(s, n) == SubSeq(s, 1, IF Len(s) < n THEN Len(s) ELSE n)

\* str.replace(c, "") for a one-character c
RECURSIVE RemoveChar(_, _)
RemoveChar(s, c) ==
    IF Len(s) = 0 THEN ""
    ELSE IF Len(s) = 1 THEN (IF s = c THEN "" ELSE s)
    ELSE RemoveChar(SubSeq(s, 1, Len(s) \div 2), c)
         \o RemoveChar(SubSeq(s, Len(s) \div 2 + 1, Len(s)), c)

(***************************************************************************)
(* Regular expressions (Python's re).  A pattern is a tree of records.     *)
(* Ways(n, ...) is the set of ways pattern n matches from a position: each *)
(* way has the position after the match, the groups captured, and a key:   *)
(* the choices made on the way, each numbered in the order re's            *)
(* backtracking tries them (a greedy repetition the longest run first, a   *)
(* lazy one the shortest, an alternation its branches from the left).  The *)
(* match re finds is the way whose key comes first.                        *)
(***************************************************************************)

Min(X) == CHOOSE x \in X : \A y \in X : x <= y

\* a local variable: F of the value v
Let(v, F(_)) == F(v)

Inf == -1

\* [...]; ls is the set as re.IGNORECASE reads it
Set(s) == [k |-> "set", s |-> s, ls |-> {LowerChar(c) : c \in s}]
NotSet(s) == [k |-> "nset", s |-> s]                  \* [^...]
Lit(c) == Set({c})
Dot == NotSet({"\n"})                                 \* .
Cat(a) == [k |-> "seq", a |-> a]                      \* concatenation
Alt(a) == [k |-> "alt", a |-> a]                      \* a|b
Rep(n, lo, hi) == [k |-> "rep", n |-> n, lo |-> lo, hi |-> hi, lazy |-> FALSE]
LazyRep(n, lo, hi) == [Rep(n, lo, hi) EXCEPT !.lazy = TRUE]
Star(n) == Rep(n, 0, Inf)                             \* n*
Plus(n) == Rep(n, 1, Inf)                             \* n+
Opt(n) == Rep(n, 0, 1)                                \* n?
Grp(id, n) == [k |-> "grp", id |-> id, n |-> n]       \* capture group id
Eos == [k |-> "eos"]                                  \* $
Word(w) == [k |-> "word", w |-> w, lw |-> Lower(w)]   \* a literal word

NoCap == <<<<1, 0>>, <<1, 0>>, <<1, 0>>>>
Fail == [ok |-> FALSE]

\* whether the character at position i is one the set node n accepts; under
\* re.IGNORECASE (ic) t is the lower-cased text, compared with the lower-cased set
CharOk(n, t, i, ic) ==
    /\ i <= Len(t)
    /\ IF n.k = "set" THEN ch(t, i) \in (IF ic THEN n.ls ELSE n.s) ELSE ch(t, i) \notin n.s

\* how many characters from position i on the set node n accepts in a row, at most hi
Run(n, t, i, hi, ic) ==
    Let(IF hi = Inf \/ Len(t) - i + 1 < hi THEN Len(t) - i + 1 ELSE hi, LAMBDA lim :
        Let({r \in 0..(lim - 1) : ~ CharOk(n, t, i + r, ic)}, LAMBDA bad :
            IF bad = {} THEN lim ELSE Min(bad)))

\* the one way of a pattern that leaves no choice
Only(i, cap) == {[pos |-> i, cap |-> cap, key |-> <<>>]}

\* key a is tried before key b
Before(a, b) ==
    \E k \in 1..Min({Len(a), Len(b)}) : a[k] < b[k] /\ \A j \in 1..(k - 1) : a[j] = b[j]

\* the way tried first
Best(W) == CHOOSE r \in W : \A q \in W : q = r \/ Before(r.key, q.key)

RECURSIVE Ways(_, _, _, _, _)
RECURSIVE WaysSeq(_, _, _, _, _, _, _)
RECURSIVE WaysRep(_, _, _, _, _, _)

\* the ways n matches t from position i, cap being the groups captured so far
Ways(n, t, i, cap, ic) ==
    CASE n.k \in {"set", "nset"} -> IF CharOk(n, t, i, ic) THEN Only(i + 1, cap) ELSE {}
      [] n.k = "word" ->
           IF /\ i + Len(n.w) - 1 <= Len(t)
              /\ SubSeq(t, i, i + Len(n.w) - 1) = (IF ic THEN n.lw ELSE n.w)
           THEN Only(i + Len(n.w), cap) ELSE {}
      [] n.k = "eos" ->
           IF i = Len(t) + 1 \/ (i = Len(t) /\ ch(t, i) = "\n") THEN Only(i, cap) ELSE {}
      [] n.k = "seq" -> WaysSeq(n.a, 1, Len(n.a), t, i, cap, ic)
      [] n.k = "alt" ->
           UNION {{[r EXCEPT !.key = <<j>> \o @] : r \in Ways(n.a[j], t, i, cap, ic)} :
                     j \in 1..Len(n.a)}
      [] n.k = "grp" ->
           {[r EXCEPT !.cap[n.id] = <<i, r.pos - 1>>] : r \in Ways(n.n, t, i, cap, ic)}
      [] n.k = "rep" /\ n.n.k \in {"set", "nset"} ->
           Let(Run(n.n, t, i, n.hi, ic), LAMBDA run :
               {[pos |-> i + c, cap |-> cap, key |-> <<IF n.lazy THEN c ELSE run - c>>] :
                   c \in n.lo..run})
      [] n.k = "rep" /\ n.n.k \notin {"set", "nset"} -> WaysRep(n, t, i, cap, ic, 0)

\* the ways the patterns a[lo..hi] match one after the other
WaysSeq(a, lo, hi, t, i, cap, ic) ==
    IF lo > hi THEN Only(i, cap)
    ELSE IF lo = hi THEN Ways(a[lo], t, i, cap, ic)
    ELSE UNION {{[pos |-> r2.pos, cap |-> r2.cap, key |-> r1.key \o r2.key] :
                    r2 \in WaysSeq(a, (lo + hi) \div 2 + 1, hi, t, r1.pos, r1.cap, ic)} :
                   r1 \in WaysSeq(a, lo, (lo + hi) \div 2, t, i, cap, ic)}

\* the ways of a repetition that has gone round cnt times: stop here, or go round
\* once more (a round that matches nothing is not taken again)
WaysRep(n, t, i, cap, ic, cnt) ==
    (IF cnt >= n.lo
     THEN {[pos |-> i, cap |-> cap, key |-> <<IF n.lazy THEN 0 ELSE 1>>]}
     ELSE {})
    \cup
    (IF n.hi = Inf \/ cnt < n.hi
     THEN UNION {{[pos |-> r2.pos, cap |-> r2.cap,
                   key |-> <<IF n.lazy THEN 1 ELSE 0>> \o r1.key \o r2.key] :
                     r2 \in WaysRep(n, t, r1.pos, r1.cap, ic, cnt + 1)} :
                    r1 \in {r \in Ways(n.n, t, i, cap, ic) : r.pos > i}}
     ELSE {})

\* pattern.match(t, i): the match from position i, if any
MatchAt(n, t, i, ic) ==
    Let(Ways(n, t, i, NoCap, ic), LAMBDA W :
        IF W = {} THEN Fail
        ELSE Let(Best(W), LAMBDA r : [ok |-> TRUE, pos |-> r.pos, cap |-> r.cap]))

NoMatch == [found |-> FALSE]

\* re.search(n, t) from position i on: the leftmost start that matches
SearchFrom(n, t, i, ic) ==
    Let({x \in {[c |-> j, m |-> MatchAt(n, t, j, ic)] : j \in i..(Len(t) + 1)} : x.m.ok},
        LAMBDA oks :
            IF oks = {} THEN NoMatch
            ELSE Let(CHOOSE x \in oks : \A y \in oks : x.c <= y.c, LAMBDA first :
                     [found |-> TRUE, start |-> first.c, end |-> first.m.pos - 1,
                      cap |-> first.m.cap]))

Search(n, t, ic) == SearchFrom(n, IF ic THEN Lower(t) ELSE t, 1, ic)

\* match.group(id)
Group(m, t, id) == SubSeq(t, m.cap[id][1], m.cap[id][2])

(***************************************************************************)
(* Numbers: a Python float read from a decimal literal is kept as the      *)
(* exact decimal [n, s] = n / 10^s with no trailing zero; the floats that  *)
(* the confidence sums produce are kept as their repr.                     *)
(***************************************************************************)

DigitValue(c) == CHOOSE v \in 0..9 : ch("0123456789", v + 1) = c

RECURSIVE StrToIntFrom(_, _, _)
StrToIntFrom(s, i, acc) ==
    IF i > Len(s) THEN acc ELSE StrToIntFrom(s, i + 1, acc * 10 + DigitValue(ch(s, i)))

\* int() of a digit string
StrToInt(s) == StrToIntFrom(s, 1, 0)

RECURSIVE IntToStr(_)
IntToStr(n) == IF n < 10 THEN ch("0123456789", n + 1)
               ELSE IntToStr(n \div 10) \o ch("0123456789", (n % 10) + 1)

RECURSIVE Normal(_)
Normal(d) == IF d.s > 0 /\ d.n % 10 = 0 THEN Normal([n |-> d.n \div 10, s |-> d.s - 1]) ELSE d

Zero == [n |-> 0, s |-> 0]

\* a raised ValueError, as a value
ValueError == [error |-> "ValueError"]

\* float(s) for s made of digits and periods
Float(s) ==
    Let({i \in 1..Len(s) : ch(s, i) = "."}, LAMBDA dots :
        IF Cardinality(dots) > 1 \/ Len(s) = Cardinality(dots) THEN ValueError
        ELSE IF dots = {} THEN [n |-> StrToInt(s), s |-> 0]
        ELSE Normal([n |-> StrToInt(RemoveChar(s, ".")),
                     s |-> Len(s) - (CHOOSE i \in dots : TRUE)]))

\* x + w in IEEE double arithmetic, on the reprs of the values the confidence sums meet
FloatAdd(x, w) ==
    CASE x = "0.0" -> w
      [] x = "0.2" /\ w = "0.1" -> "0.30000000000000004"
      [] x = "0.2" /\ w = "0.4" -> "0.6000000000000001"
      [] x = "0.3" /\ w = "0.1" -> "0.4"
      [] x = "0.3" /\ w = "0.2" -> "0.5"
      [] x = "0.3" /\ w = "0.4" -> "0.7"
      [] x = "0.4" /\ w = "0.1" -> "0.5"
      [] x = "0.4" /\ w = "0.2" -> "0.6000000000000001"
      [] x = "0.4" /\ w = "0.3" -> "0.7"
      [] x = "0.5" /\ w = "0.1" -> "0.6"
      [] x = "0.5" /\ w = "0.4" -> "0.9"
      [] x = "0.6000000000000001" /\ w = "0.1" -> "0.7000000000000001"
      [] x = "0.7" /\ w = "0.1" -> "0.7999999999999999"
      [] x = "0.7" /\ w = "0.2" -> "0.8999999999999999"
      [] x = "0.8999999999999999" /\ w = "0.1" -> "0.9999999999999999"
      [] x = "0.9" /\ w = "0.1" -> "1.0"

\* the reprs of the floats the confidence sums give
FloatReprs ==
    {"0.0", "0.1", "0.2", "0.3", "0.30000000000000004", "0.4", "0.5", "0.6",
     "0.6000000000000001", "0.7", "0.7000000000000001", "0.8", "0.7999999999999999",
     "0.9", "0.8999999999999999", "1.0", "0.9999999999999999"}

\* the confidence in tenths, the rounding error of the float sum left out
Tenths(confidence) ==
    CASE confidence = "0.0" -> 0
      [] confidence = "0.1" -> 1
      [] confidence = "0.2" -> 2
      [] confidence \in {"0.3", "0.30000000000000004"} -> 3
      [] confidence = "0.4" -> 4
      [] confidence = "0.5" -> 5
      [] confidence \in {"0.6", "0.6000000000000001"} -> 6
      [] confidence \in {"0.7", "0.7000000000000001"} -> 7
      [] confidence \in {"0.8", "0.7999999999999999"} -> 8
      [] confidence \in {"0.9", "0.8999999999999999"} -> 9
      [] confidence \in {"1.0", "0.9999999999999999"} -> 10

(***************************************************************************)
(* Dates                                                                   *)
(***************************************************************************)

Pad2(n) == IF n < 10 THEN "0" \o IntToStr(n) ELSE IntToStr(n)

IsLeap(y) == (y % 4 = 0 /\ y % 100 # 0) \/ y % 400 = 0

DaysInMonth(y, m) ==
    IF m = 2 THEN (IF IsLeap(y) THEN 29 ELSE 28)
    ELSE IF m \in {4, 6, 9, 11} THEN 30 ELSE 31

\* datetime.strftime("%Y-%m-%d") with the C library's %Y, which does not pad the year
strftime(d) == IntToStr(d.year) \o "-" \o Pad2(d.month) \o "-" \o Pad2(d.day)

D == Set(Digit)
S == Set(Space)

\* the regular expressions _strptime builds for the directives
DirectiveM == Alt(<<Cat(<<Lit("1"), Set(Chars("012"))>>), Cat(<<Lit("0"), Set(Chars("123456789"))>>),
                    Set(Chars("123456789"))>>)
DirectiveD == Alt(<<Cat(<<Lit("3"), Set(Chars("01"))>>), Cat(<<Set(Chars("12")), D>>),
                    Cat(<<Lit("0"), Set(Chars("123456789"))>>), Set(Chars("123456789")),
                    Cat(<<Lit(" "), Set(Chars("123456789"))>>)>>)
DirectiveY == Rep(D, 4, 4)
Directivey == Rep(D, 2, 2)

\* the formats parse_generic tries, in its order; groups: 1 month, 2 day, 3 year
DateFormats ==
    << [re |-> Cat(<<Grp(1, DirectiveM), Lit("/"), Grp(2, DirectiveD), Lit("/"), Grp(3, DirectiveY)>>),
        century |-> TRUE],                                                     \* %m/%d/%Y
       [re |-> Cat(<<Grp(1, DirectiveM), Lit("/"), Grp(2, DirectiveD), Lit("/"), Grp(3, Directivey)>>),
        century |-> FALSE],                                                    \* %m/%d/%y
       [re |-> Cat(<<Grp(1, DirectiveM), Lit("-"), Grp(2, DirectiveD), Lit("-"), Grp(3, DirectiveY)>>),
        century |-> TRUE],                                                     \* %m-%d-%Y
       [re |-> Cat(<<Grp(2, DirectiveD), Lit("/"), Grp(1, DirectiveM), Lit("/"), Grp(3, DirectiveY)>>),
        century |-> TRUE] >>                                                   \* %d/%m/%Y

\* datetime(year, month, day), for a month in 1..12 and a day the patterns left >= 1
datetime(year, month, day) ==
    IF year < 1 \/ day < 1 \/ day > DaysInMonth(year, month) THEN ValueError
    ELSE [year |-> year, month |-> month, day |-> day]

\* the year a two-digit %y stands for
Century(yy) == IF yy <= 68 THEN 2000 + yy ELSE 1900 + yy

\* datetime.strptime(raw, fmt)
strptime(raw, fmt) ==
    Let(MatchAt(fmt.re, Lower(raw), 1, TRUE), LAMBDA m :
        IF ~ m.ok THEN ValueError
        ELSE IF m.pos # Len(raw) + 1 THEN ValueError
        ELSE datetime(IF fmt.century THEN StrToInt(Group(m, raw, 3))
                      ELSE Century(StrToInt(Group(m, raw, 3))),
                      StrToInt(Strip(Group(m, raw, 1))),
                      StrToInt(Strip(Group(m, raw, 2)))))

MonthNames == <<"Jan", "Feb", "Mar", "Apr", "May", "Jun", "Jul", "Aug", "Sep", "Oct", "Nov", "Dec">>

\* an RFC 2822 date: [Day, ]DD Mon YYYY HH:MM[:SS] zone; groups: 1 day, 2 month, 3 year
Rfc2822Date ==
    Cat(<<Opt(Cat(<<Rep(Set(LowerAZ \cup UpperAZ), 3, 3), Lit(","), Plus(S)>>)),
          Grp(1, Rep(D, 1, 2)), Plus(S),
          Grp(2, Rep(Set(LowerAZ \cup UpperAZ), 3, 3)), Plus(S),
          Grp(3, Rep(D, 4, 4)), Plus(S),
          Rep(D, 2, 2), Lit(":"), Rep(D, 2, 2), Opt(Cat(<<Lit(":"), Rep(D, 2, 2)>>)), Plus(S),
          Alt(<<Cat(<<Set({"+", "-"}), Rep(D, 4, 4)>>), Plus(Set(UpperAZ))>>), Eos>>)

\* email.utils.parsedate_to_datetime(header); any exception it raises is ValueError here
parsedate_to_datetime(header) ==
    IF header = None THEN ValueError
    ELSE Let(MatchAt(Rfc2822Date, header, 1, FALSE), LAMBDA m :
             IF ~ m.ok THEN ValueError
             ELSE Let({k \in 1..12 : Lower(MonthNames[k]) = Lower(Group(m, header, 2))},
                      LAMBDA months :
                          IF months = {} THEN ValueError
                          ELSE datetime(StrToInt(Group(m, header, 3)),
                                        CHOOSE k \in months : TRUE,
                                        StrToInt(Group(m, header, 1)))))

(***************************************************************************)
(* Parser: clean_html                                                      *)
(***************************************************************************)

\* re.sub(n, repl, t) from position i on (no pattern used here matches the empty string)
RECURSIVE SubFrom(_, _, _, _, _)
SubFrom(n, repl, t, i, ic) ==
    Let(SearchFrom(n, IF ic THEN Lower(t) ELSE t, i, ic), LAMBDA m :
        IF ~ m.found \/ m.end < m.start THEN SubSeq(t, i, Len(t))
        ELSE SubSeq(t, i, m.start - 1) \o repl \o SubFrom(n, repl, t, m.end + 1, ic))

Sub(n, repl, t, ic) == SubFrom(n, repl, t, 1, ic)

AnyChar == NotSet({})                                 \* . under re.DOTALL
NotGt == NotSet({">"})

StyleBlock == Cat(<<Word("<style"), Star(NotGt), Lit(">"), LazyRep(AnyChar, 0, Inf), Word("</style>")>>)
ScriptBlock == Cat(<<Word("<script"), Star(NotGt), Lit(">"), LazyRep(AnyChar, 0, Inf), Word("</script>")>>)
BrTag == Cat(<<Word("<br"), Star(S), Opt(Lit("/")), Star(S), Lit(">")>>)
BlockEnd == Cat(<<Word("</"),
                  Alt(<<Word("p"), Word("div"), Word("tr"), Word("li"),
                        Cat(<<Lit("h"), Set(Chars("123456"))>>)>>),
                  Lit(">")>>)
TdTag == Cat(<<Word("<td"), Star(NotGt), Lit(">")>>)
AnyTag == Cat(<<Lit("<"), Plus(NotGt), Lit(">")>>)
BlankRun == Plus(Set({" ", "\t"}))
BlankLines == Cat(<<Lit("\n"), Star(S), Lit("\n")>>)

\* the steps of clean_html, each a substitution on the text the one before left
CleanSteps ==
    << [re |-> StyleBlock, repl |-> "", ic |-> TRUE],
       [re |-> ScriptBlock, repl |-> "", ic |-> TRUE],
       [re |-> BrTag, repl |-> "\n", ic |-> TRUE],
       [re |-> BlockEnd, repl |-> "\n", ic |-> TRUE],
       [re |-> TdTag, repl |-> " | ", ic |-> TRUE],
       [re |-> AnyTag, repl |-> " ", ic |-> FALSE],
       [re |-> Word("&nbsp;"), repl |-> " ", ic |-> FALSE],
       [re |-> Word("&amp;"), repl |-> "&", ic |-> FALSE],
       [re |-> Word("&lt;"), repl |-> "<", ic |-> FALSE],
       [re |-> Word("&gt;"), repl |-> ">", ic |-> FALSE],
       [re |-> Word("&quot;"), repl |-> "\"", ic |-> FALSE],
       [re |-> Word("&#39;"), repl |-> "'", ic |-> FALSE],
       [re |-> Word("&apos;"), repl |-> "'", ic |-> FALSE],
       [re |-> BlankRun, repl |-> " ", ic |-> FALSE],
       [re |-> BlankLines, repl |-> "\n", ic |-> FALSE] >>

\* the text after the first k steps
RECURSIVE Cleaned(_, _)
Cleaned(html, k) ==
    IF k = 0 THEN html
    ELSE CHOOSE out \in {Sub(CleanSteps[k].re, CleanSteps[k].repl, t, CleanSteps[k].ic) :
                            t \in {Cleaned(html, k - 1)}} : TRUE

clean_html(html) == IF html = "" THEN "" ELSE Strip(Cleaned(html, Len(CleanSteps)))

(***************************************************************************)
(* Parser: the patterns of parse_bac_costa_rica and parse_generic          *)
(***************************************************************************)

\* Python truthiness of a str-or-None value
Truthy(x) == x # None /\ x # ""

\* dict.get(key, default)
Get(d, key, default) == IF d[key] = Missing THEN default ELSE d[key]

\* f"{x}"
Str(x) == IF x = None THEN "None" ELSE x

Raised == [raised |-> TRUE]

Accent == Set({"o", "ó"})

\* [Nn]otificaci[oó]n\s+de\s+transacci[oó]n\s+(.+?)\s+\d{2}-\d{2}-\d{4}
SubjectMerchant ==
    Cat(<<Set({"N", "n"}), Word("otificaci"), Accent, Lit("n"), Plus(S), Word("de"), Plus(S),
          Word("transacci"), Accent, Lit("n"), Plus(S), Grp(1, LazyRep(Dot, 1, Inf)), Plus(S),
          Rep(D, 2, 2), Lit("-"), Rep(D, 2, 2), Lit("-"), Rep(D, 4, 4)>>)

\* (\d{2})-(\d{2})-(\d{4})
SubjectDate ==
    Cat(<<Grp(1, Rep(D, 2, 2)), Lit("-"), Grp(2, Rep(D, 2, 2)), Lit("-"), Grp(3, Rep(D, 4, 4))>>)

\* [0-9]{1,3}(?:[,.]?\d{3})*(?:[.,]\d{2})
AmountLiteral ==
    Cat(<<Rep(D, 1, 3), Star(Cat(<<Opt(Set({",", "."})), Rep(D, 3, 3)>>)),
          Set({".", ","}), Rep(D, 2, 2)>>)

\* [Ll]abel[:\s]+[₡$]?\s*(literal)
Labelled(initial, rest) ==
    Cat(<<Set(initial), Word(rest), Plus(Set({":"} \cup Space)), Opt(Set({"₡", "$"})),
          Star(S), Grp(1, AmountLiteral)>>)

amount_patterns ==
    << Cat(<<Set({"₡", "$", "¢"}), Star(S), Grp(1, AmountLiteral)>>),
       Cat(<<Alt(<<Word("USD"), Word("CRC"), Word("US$")>>), Star(S), Grp(1, AmountLiteral)>>),
       Labelled({"M", "m"}, "onto"),
       Labelled({"C", "c"}, "antidad"),
       Labelled({"T", "t"}, "otal"),
       Grp(1, Cat(<<Rep(D, 1, 3), Star(Cat(<<Lit(","), Rep(D, 3, 3)>>)), Lit("."), Rep(D, 2, 2)>>)) >>

card_patterns ==
    << Cat(<<Alt(<<Word("tarjeta"), Word("card"), Word("ending"),
                   Cat(<<Word("terminad"), Opt(Lit("a")), Plus(S), Word("en")>>), Word("xxxx")>>),
             Star(S), Star(Set({":"} \cup Space)), Rep(Lit("*"), 0, 4), Star(S),
             Grp(1, Rep(D, 4, 4))>>),
       Cat(<<Rep(Lit("*"), 4, 4), Grp(1, Rep(D, 4, 4))>>),
       Cat(<<Rep(Set({"X", "x"}), 4, 4), Grp(1, Rep(D, 4, 4))>>),
       Cat(<<Alt(<<Cat(<<Word("terminaci"), Accent, Lit("n")>>), Word("final")>>),
             Star(S), Star(Set({":"} \cup Space)), Grp(1, Rep(D, 4, 4))>>) >>

debit_keywords ==
    << "compra", "purchase", "cargo", "débito", "debito", "retiro",
       "withdrawal", "pago", "payment", "cobro", "charge", "spent",
       "cajero", "atm" >>

credit_keywords ==
    << "crédito", "credito", "credit", "depósito", "deposito", "deposit",
       "abono", "reembolso", "refund", "devolución", "devolucion" >>

debit_kw == << "purchase", "spent", "charge", "debit", "withdrawal", "payment" >>
credit_kw == << "credit", "deposit", "refund", "received", "cashback" >>

\* \$([0-9,]+\.[0-9]{2})
GenericAmount ==
    Cat(<<Lit("$"), Grp(1, Cat(<<Plus(Set(Digit \cup {","})), Lit("."), Rep(D, 2, 2)>>))>>)

MerchantChar == Set(LowerAZ \cup UpperAZ \cup Digit \cup Space \cup {"&", "'", "-", "."})

merchant_patterns ==
    << Cat(<<Alt(<<Word("at"), Word("from"), Word("to"), Word("with")>>), Plus(S),
             Grp(1, LazyRep(MerchantChar, 1, Inf)),
             Alt(<<Cat(<<Plus(S), Word("on")>>), Cat(<<Plus(S), Word("for")>>),
                   Cat(<<Plus(S), Lit("$")>>), Lit("."), Lit(","), Eos>>)>>),
       Cat(<<Alt(<<Word("merchant"), Word("comercio")>>), Plus(Set({":"} \cup Space)),
             Grp(1, LazyRep(MerchantChar, 1, Inf)), Alt(<<S, Eos>>)>>) >>

\* (\d{1,2}[/-]\d{1,2}[/-]\d{2,4})
GenericDate ==
    Grp(1, Cat(<<Rep(D, 1, 2), Set({"/", "-"}), Rep(D, 1, 2), Set({"/", "-"}), Rep(D, 2, 4)>>))

\* (?:ending in|card|xxxx)\s*(\d{4})
GenericCard ==
    Cat(<<Alt(<<Word("ending in"), Word("card"), Word("xxxx")>>), Star(S), Grp(1, Rep(D, 4, 4))>>)

\* sum(1 for kw in kws if kw in text)
Score(kws, text) == Cardinality({j \in 1..Len(kws) : Contains(kws[j], text)})

(***************************************************************************)
(* Parser: parse_bac_costa_rica                                            *)
(***************************************************************************)

\* the date fallback shared by both parsers: the Date header, else today
header_date(email_msg, today) ==
    Let(parsedate_to_datetime(Get(email_msg, "date", "")), LAMBDA p :
        IF p = ValueError THEN today ELSE strftime(p))

bac_merchant(subject) ==
    Let(Search(SubjectMerchant, subject, FALSE), LAMBDA merchant_match :
        IF merchant_match.found THEN Strip(Group(merchant_match, subject, 1))
        ELSE "Unknown Merchant")

bac_date(email_msg, subject, today) ==
    Let(Search(SubjectDate, subject, FALSE), LAMBDA date_match :
        IF date_match.found
        THEN Group(date_match, subject, 3) \o "-" \o Group(date_match, subject, 2)
             \o "-" \o Group(date_match, subject, 1)
        ELSE header_date(email_msg, today))

\* the loop over amount_patterns, from pattern j on, with the value amount holds so far
RECURSIVE amount_cascade(_, _, _, _)
amount_cascade(patterns, j, full_text, amount) ==
    IF j > Len(patterns) THEN [amount |-> amount, amount_found |-> FALSE, pattern |-> 0]
    ELSE Let(Search(patterns[j], full_text, FALSE), LAMBDA match :
             IF ~ match.found THEN amount_cascade(patterns, j + 1, full_text, amount)
             ELSE Let(Float(RemoveChar(Group(match, full_text, 1), ",")), LAMBDA value :
                      IF value = ValueError
                      THEN amount_cascade(patterns, j + 1, full_text, amount)
                      ELSE IF value.n > 0
                      THEN [amount |-> value, amount_found |-> TRUE, pattern |-> j]
                      ELSE amount_cascade(patterns, j + 1, full_text, value)))

bac_amount(full_text) == amount_cascade(amount_patterns, 1, full_text, Zero)

RECURSIVE card_cascade(_, _)
card_cascade(j, full_text) ==
    IF j > Len(card_patterns) THEN ""
    ELSE Let(Search(card_patterns[j], full_text, TRUE), LAMBDA match :
             IF match.found THEN Group(match, full_text, 1) ELSE card_cascade(j + 1, full_text))

bac_card(full_text) == card_cascade(1, full_text)

\* transaction_type with the vote decided by >= : a tie goes to CREDIT
transaction_type_ties_credit(debit, credit, full_text) ==
    Let(Lower(full_text), LAMBDA text_lower :
        IF Score(credit, text_lower) >= Score(debit, text_lower) THEN "CREDIT" ELSE "DEBIT")

\* "CREDIT" if credit_score > debit_score else "DEBIT"
transaction_type(debit, credit, full_text) ==
    Let(Lower(full_text), LAMBDA text_lower :
        IF Score(credit, text_lower) > Score(debit, text_lower) THEN "CREDIT" ELSE "DEBIT")

\* confidence += w  if the condition holds
AddIf(cond, confidence, w) == IF cond THEN FloatAdd(confidence, w) ELSE confidence

\* bac_confidence with the merchant weight added whether or not a merchant was found
bac_confidence_flat(merchant, date_str, amount_found, card_last_four) ==
    AddIf(card_last_four # "",
          AddIf(amount_found,
                AddIf(date_str # "",
                      AddIf(TRUE, "0.0", "0.3"),
                      "0.2"),
                "0.4"),
          "0.1")

\* the four steps of the sum, the first innermost
bac_confidence(merchant, date_str, amount_found, card_last_four) ==
    AddIf(card_last_four # "",
          AddIf(amount_found,
                AddIf(date_str # "",
                      AddIf(merchant # "Unknown Merchant", "0.0", "0.3"),
                      "0.2"),
                "0.4"),
          "0.1")

\* the return value of a parser
parsed_record(merchant, date_str, amount, card_last_four, type, confidence, full_text) ==
    [raised |-> FALSE,
     merchant |-> merchant,
     date |-> date_str,
     amount |-> amount,
     card_last_4 |-> card_last_four,
     transaction_type |-> type,
     confidence |-> confidence,
     raw_text |-> Prefix(full_text, 500)]

\* parse_bac_costa_rica once subject, clean_body and full_text are known
bac_fields(email_msg, today, subject, full_text) ==
    Let(bac_merchant(subject), LAMBDA merchant :
    Let(bac_date(email_msg, subject, today), LAMBDA date_str :
    Let(bac_amount(full_text), LAMBDA am :
    Let(bac_card(full_text), LAMBDA card_last_four :
        parsed_record(merchant, date_str, am.amount, card_last_four,
                      transaction_type(debit_keywords, credit_keywords, full_text),
                      bac_confidence(merchant, date_str, am.amount_found, card_last_four),
                      full_text)))))

parse_bac_costa_rica(email_msg, today) ==
    Let(Get(email_msg, "subject", ""), LAMBDA subject :
    Let(Get(email_msg, "body_html", ""), LAMBDA body_html :
    Let(IF Truthy(body_html) THEN clean_html(body_html) ELSE Get(email_msg, "body_text", ""),
        LAMBDA clean_body :
            IF subject = None \/ clean_body = None THEN Raised   \* subject[:80], len(clean_body)
            ELSE bac_fields(email_msg, today, subject, subject \o "\n" \o clean_body))))

(***************************************************************************)
(* Parser: parse_generic                                                   *)
(***************************************************************************)

generic_amount(full_text) ==
    Let(Search(GenericAmount, full_text, FALSE), LAMBDA amount_match :
        IF amount_match.found THEN Float(RemoveChar(Group(amount_match, full_text, 1), ","))
        ELSE Zero)

RECURSIVE merchant_cascade(_, _)
merchant_cascade(j, full_text) ==
    IF j > Len(merchant_patterns) THEN "Unknown Merchant"
    ELSE Let(Search(merchant_patterns[j], full_text, TRUE), LAMBDA match :
             IF match.found THEN Prefix(Strip(Group(match, full_text, 1)), 50)
             ELSE merchant_cascade(j + 1, full_text))

generic_merchant(full_text) == merchant_cascade(1, full_text)

\* the loop over the format templates: the first that parses, else ""
RECURSIVE try_formats(_, _)
try_formats(raw_date, j) ==
    IF j > Len(DateFormats) THEN ""
    ELSE Let(strptime(raw_date, DateFormats[j]), LAMBDA p :
             IF p = ValueError THEN try_formats(raw_date, j + 1) ELSE strftime(p))

generic_date(email_msg, full_text, today) ==
    Let(Search(GenericDate, full_text, FALSE), LAMBDA date_match :
    Let(IF date_match.found THEN try_formats(Group(date_match, full_text, 1), 1) ELSE "",
        LAMBDA date_str :
            IF date_str = "" THEN header_date(email_msg, today) ELSE date_str))

generic_card(full_text) ==
    Let(Search(GenericCard, full_text, TRUE), LAMBDA card_match :
        IF card_match.found THEN Group(card_match, full_text, 1) ELSE "")

\* generic_confidence without the weight of the date
generic_confidence_no_date(amount, merchant, date_str, card_last_four) ==
    AddIf(card_last_four # "",
          AddIf(merchant # "Unknown Merchant",
                AddIf(amount.n > 0, "0.0", "0.4"),
                "0.3"),
          "0.1")

generic_confidence(amount, merchant, date_str, card_last_four) ==
    AddIf(card_last_four # "",
          AddIf(date_str # "",
                AddIf(merchant # "Unknown Merchant",
                      AddIf(amount.n > 0, "0.0", "0.4"),
                      "0.3"),
                "0.2"),
          "0.1")

\* str.startswith
StartsWith(t, p) == Len(t) >= Len(p) /\ SubSeq(t, 1, Len(p)) = p

\* parse_generic once full_text is known
generic_fields(email_msg, today, full_text) ==
    Let(generic_amount(full_text), LAMBDA amount :
    Let(generic_merchant(full_text), LAMBDA merchant :
    Let(generic_date(email_msg, full_text, today), LAMBDA date_str :
    Let(generic_card(full_text), LAMBDA card_last_four :
        parsed_record(merchant, date_str, amount, card_last_four,
                      transaction_type(debit_kw, credit_kw, full_text),
                      generic_confidence(amount, merchant, date_str, card_last_four),
                      full_text)))))

\* body_text after the "@media" test
generic_body_text(body_text, body_html) ==
    IF Truthy(body_text) /\ StartsWith(Strip(body_text), "@media")
    THEN (IF Truthy(body_html) THEN clean_html(body_html) ELSE "")
    ELSE body_text

parse_generic(email_msg, today) ==
    generic_fields(email_msg, today,
                   Str(Get(email_msg, "subject", "")) \o " "
                   \o Str(generic_body_text(Get(email_msg, "body_text", ""),
                                            Get(email_msg, "body_html", ""))))

(***************************************************************************)
(* Parser: detect_bank and main                                            *)
(***************************************************************************)

bank_map ==
    << <<"notificacionesbaccr", "bac_cr">>,
       <<"baborigen", "bac_cr">>,
       <<"baccredomatic", "bac_cr">>,
       <<"chase.com", "chase">>,
       <<"bankofamerica", "bofa">>,
       <<"wellsfargo", "wells_fargo">>,
       <<"capitalone", "capital_one">>,
       <<"citi.com", "citi">> >>

\* bank_walk without the early return: the last matching entry wins
RECURSIVE bank_walk_last(_, _)
bank_walk_last(sender_lower, j) ==
    IF j > Len(bank_map) THEN "generic"
    ELSE Let(bank_walk_last(sender_lower, j + 1), LAMBDA later :
             IF later # "generic" THEN later
             ELSE IF Contains(bank_map[j][1], sender_lower) THEN bank_map[j][2]
             ELSE "generic")

RECURSIVE bank_walk(_, _)
bank_walk(sender_lower, j) ==
    IF j > Len(bank_map) THEN "generic"
    ELSE IF Contains(bank_map[j][1], sender_lower) THEN bank_map[j][2]
    ELSE bank_walk(sender_lower, j + 1)

detect_bank(sender) == bank_walk(Lower(sender), 1)

\* the value main's locals hold before the first assignment
Unset == [unset |-> TRUE]

\* main's loop without the except clause: the fault leaves main
on_exception_reraise(st, email_msg) == [st EXCEPT !.pc = "raised"]

\* the except clause of main's loop: log the email's id and go on with the next email
on_exception(st, email_msg) ==
    [st EXCEPT !.log = Append(@, [kind |-> "ERROR", id |-> Get(email_msg, "id", "?")])]

\* the tail of the try block: build the transaction from parsed and append it
append_transaction(st, email_msg, p) ==
    [st EXCEPT !.parsed = p,
               !.transactions = Append(@, [email_id |-> Get(email_msg, "id", ""),
                                           date |-> p.date,
                                           amount |-> p.amount,
                                           merchant |-> p.merchant,
                                           card_last_4 |-> p.card_last_4,
                                           transaction_type |-> p.transaction_type,
                                           raw_text |-> p.raw_text,
                                           confidence |-> p.confidence]),
               !.log = Append(@, [kind |-> "Parsed", id |-> Get(email_msg, "id", "")])]

\* one iteration of main's loop on email_msg; st holds main's locals
\* the try block of main's loop once bank_id is assigned; st holds main's locals
parse_by_bank(st, email_msg, today) ==
    IF Get(email_msg, "subject", "") = None THEN on_exception(st, email_msg)   \* subject[:80]
    ELSE Let(IF st.bank_id = "bac_cr" THEN parse_bac_costa_rica(email_msg, today)
             ELSE parse_generic(email_msg, today),
             LAMBDA p : IF p.raised THEN on_exception(st, email_msg)
                        ELSE append_transaction(st, email_msg, p))

parse_iteration(st, email_msg, today) ==
    IF Get(email_msg, "sender", "") = None THEN on_exception(st, email_msg)    \* sender.lower()
    ELSE parse_by_bank([st EXCEPT !.bank_id = detect_bank(Get(email_msg, "sender", ""))],
                       email_msg, today)

(***************************************************************************)
(* Categorizer                                                             *)
(***************************************************************************)

\* the emoji are written as their code points
CATEGORIES ==
    << [name |-> "Food & Dining", emoji |-> "U+1F37D U+FE0F", keywords |-> <<
          "restaurant", "cafe", "coffee", "starbucks", "mcdonald", "burger", "pizza",
          "subway", "chipotle", "panera", "dining", "food", "doordash", "ubereats",
          "grubhub", "postmates", "delivery", "soda", "sabrosera", "restaurante", "comida",
          "pollo", "asados", "pupuseria", "marisqueria", "panaderia", "bakery" >>],
       [name |-> "Groceries", emoji |-> "U+1F6D2", keywords |-> <<
          "grocery", "supermarket", "walmart", "target", "costco", "safeway", "kroger",
          "whole foods", "trader joe", "aldi", "market", "food lion", "supermercado",
          "automercado", "masxmenos", "mas x menos", "pali", "megasuper", "pricesmart",
          "small world" >>],
       [name |-> "Transportation", emoji |-> "U+1F697", keywords |-> <<
          "uber", "lyft", "taxi", "gas", "fuel", "shell", "chevron", "exxon", "bp",
          "parking", "transit", "metro", "train", "bus", "airline", "gasolinera",
          "gasolina", "peaje", "parqueo", "estacionamiento" >>],
       [name |-> "Housing", emoji |-> "U+1F3E0", keywords |-> <<
          "rent", "mortgage", "property", "home depot", "lowes", "ikea", "furniture",
          "utilities", "electric", "water", "internet", "cable", "alquiler", "hipoteca",
          "kolbi", "ice", "aya", "cnfl", "jasec" >>],
       [name |-> "Entertainment", emoji |-> "U+1F3AC", keywords |-> <<
          "netflix", "spotify", "hulu", "disney", "amazon prime", "youtube", "movie",
          "theater", "cinema", "concert", "ticket", "entertainment", "game", "steam",
          "playstation", "xbox", "nintendo", "google", "temporary hold" >>],
       [name |-> "Shopping", emoji |-> "U+1F6CD U+FE0F", keywords |-> <<
          "amazon", "ebay", "etsy", "shop", "store", "retail", "mall", "clothing",
          "fashion", "shoes", "apparel", "best buy", "apple store", "tienda",
          "centro comercial", "epa", "construplaza" >>],
       [name |-> "Healthcare", emoji |-> "U+2695 U+FE0F", keywords |-> <<
          "pharmacy", "cvs", "walgreens", "hospital", "clinic", "doctor", "medical",
          "health", "dental", "vision", "insurance", "prescription", "farmacia", "clinica",
          "consultorio", "laboratorio" >>],
       [name |-> "Travel", emoji |-> "U+2708 U+FE0F", keywords |-> <<
          "hotel", "airbnb", "booking", "expedia", "airline", "flight", "travel",
          "vacation", "resort", "marriott", "hilton", "hyatt", "avianca", "volaris",
          "copa airlines" >>],
       [name |-> "Bills & Utilities", emoji |-> "U+1F4C4", keywords |-> <<
          "bill", "utility", "electric", "gas", "water", "phone", "mobile", "verizon",
          "att", "t-mobile", "comcast", "spectrum", "insurance", "seguro", "ins", "ccss",
          "caja" >>],
       [name |-> "Transfers", emoji |-> "U+1F4B8", keywords |-> <<
          "transfer", "venmo", "paypal", "zelle", "cashapp", "payment", "withdrawal",
          "deposit", "atm", "sinpe", "transferencia", "cajero", "cajero automatico",
          "retiro" >>] >>

TransactionKeys ==
    {"email_id", "date", "amount", "merchant", "card_last_4", "transaction_type",
     "confidence", "raw_text"}

\* the inner loop: how many keywords of the category occur in either text
match_count(keywords, merchant_lower, raw_text_lower) ==
    Cardinality({j \in 1..Len(keywords) :
                    Contains(keywords[j], merchant_lower) \/ Contains(keywords[j], raw_text_lower)})

\* the replacement test with >= : among equal counts the later category wins
better_or_equal(count, best_match_count) == count >= best_match_count

\* the test that replaces the best category so far
better(count, best_match_count) == count > best_match_count

\* the outer loop, from category j on
RECURSIVE category_walk(_, _, _, _)
category_walk(j, merchant_lower, raw_text_lower, best) ==
    IF j > Len(CATEGORIES) THEN best
    ELSE Let(match_count(CATEGORIES[j].keywords, merchant_lower, raw_text_lower),
             LAMBDA count :
                 category_walk(j + 1, merchant_lower, raw_text_lower,
                               IF better(count, best.best_match_count)
                               THEN [best_category |-> CATEGORIES[j].name,
                                     best_emoji |-> CATEGORIES[j].emoji,
                                     best_match_count |-> count]
                               ELSE best))

best_of(merchant, raw_text) ==
    category_walk(1, Lower(merchant), Lower(raw_text),
                  [best_category |-> "Other", best_emoji |-> "U+2753", best_match_count |-> 0])

\* a KeyError or AttributeError is Raised
categorize_transaction(transaction) ==
    IF transaction.merchant \in {Missing, None} \/ transaction.raw_text \in {Missing, None}
       \/ \E key \in TransactionKeys \ {"amount"} : transaction[key] = Missing
    THEN Raised
    ELSE Let(best_of(transaction.merchant, transaction.raw_text), LAMBDA best :
             [raised |-> FALSE,
              value |-> [email_id |-> transaction.email_id,
                         date |-> transaction.date,
                         amount |-> transaction.amount,
                         merchant |-> transaction.merchant,
                         card_last_4 |-> transaction.card_last_4,
                         transaction_type |-> transaction.transaction_type,
                         category |-> best.best_category,
                         category_emoji |-> best.best_emoji,
                         confidence |-> transaction.confidence,
                         raw_text |-> transaction.raw_text]])

\* {**transaction, "category": "Other", "category_emoji": "❓"}
with_default_category(transaction) ==
    [key \in DOMAIN transaction \cup {"category", "category_emoji"} |->
        IF key = "category" THEN "Other"
        ELSE IF key = "category_emoji" THEN "U+2753"
        ELSE transaction[key]]

\* the categorizer loop with an except clause that skips the transaction
categorize_iteration_dropping(st, k) ==
    Let(categorize_transaction(st.transactions[k]), LAMBDA r :
        IF r.raised THEN st ELSE [st EXCEPT !.categorized = Append(@, r.value)])

\* one iteration of the categorizer main's loop on transactions[k]
categorize_iteration(st, k) ==
    Let(categorize_transaction(st.transactions[k]), LAMBDA r :
        [st EXCEPT !.categorized =
            Append(@, IF r.raised THEN with_default_category(st.transactions[k]) ELSE r.value)])

(***************************************************************************)
(* The inputs the scripts are run on                                       *)
(***************************************************************************)

MaxBatch == 3       \* longest list handed to a main
MaxPhrases == 2     \* most phrases strung together into one text

\* the texts made of at most n phrases of P
RECURSIVE Texts(_, _)
Texts(P, n) ==
    IF n = 0 THEN {""}
    ELSE Let(Texts(P, n - 1), LAMBDA T : T \cup {t \o p : t \in T, p \in P})

\* the lists of at most n elements of P
Batches(P, n) == UNION {[1..k -> P] : k \in 0..n}

Email(id, sender, subject, date, body_text, body_html) ==
    [id |-> id, thread_id |-> "<" \o id \o "@mail>", subject |-> subject, sender |-> sender,
     date |-> date, body_text |-> body_text, body_html |-> body_html]

BacSender == "BAC Credomatic <notificaciones@notificacionesbaccr.com>"
GenericSender == "Chase <no-reply@alerts.chase.com>"
BacSubject == "Notificación de transacción AUTOMERCADO 15-03-2024 - 14:22"
GenericSubject == "Transaction alert"
DateHeader == "Fri, 15 Mar 2024 14:22:00 -0600"
SubjectFor(sender) == IF sender = BacSender THEN BacSubject ELSE GenericSubject

Today == {"2026-11-06", "2027-01-01"}

AmountPhrases ==
    {"Monto: 100.00 ", "$5.00 ", "₡45,00 ", "CRC 1.234,56 ", "Total: 0.00 ", "1,234.56 ",
     "$1.234.56 "}

AmountEmails ==
    {Email("a", sender, SubjectFor(sender), DateHeader, body, "") :
        sender \in {BacSender, GenericSender}, body \in Texts(AmountPhrases, MaxPhrases)}

DateSubjects == {BacSubject, "Notificación de transacción SODA 99-99-2024", "Compra aprobada"}
DateBodies ==
    {"", "Paid on 03/12/2024", "Paid on 13/12/2024", "Paid 3/12/24", "Paid 03-12-2024 ok",
     "Paid 02/30/2024", "Paid 1/2-2024", "Paid 01/02/0099"}
Headers == {DateHeader, "Sat, 29 Feb 2020 23:59:59 +0000", "", "not a date", None, Missing}

DateEmails ==
    {Email("d", sender, subject, header, body, "") :
        sender \in {BacSender, GenericSender}, subject \in DateSubjects,
        header \in Headers, body \in DateBodies}

FieldSubjects == {BacSubject, "Compra aprobada", "Notificación de transacción    15-03-2024"}
FieldBodies ==
    {"", "Compra con tarjeta ****1234", "Pago Visa terminada en 9876", "card 12345 charge",
     "xxxx123 retiro", "You spent $42.19 at Trader Joe's on 03/12/2024",
     "Refund credit from ACME Corp. deposit", "merchant: ACME refund purchase",
     "Crédito: reembolso de compra", "final: 4321 abono", "Tarjeta: 5555 devolución depósito"}

FieldEmails ==
    {Email("f", sender, subject, DateHeader, body, "") :
        sender \in {BacSender, GenericSender}, subject \in FieldSubjects, body \in FieldBodies}

HtmlBodies ==
    {"<table><tr><td><p>Monto:</p></td><td><p>CRC 25,500.00</p></td></tr></table>",
     "<style>p{color:red}</style><div>Compra &amp; pago<br/>$1,250.75</div>"}

HtmlEmails ==
    {Email("h", sender, SubjectFor(sender), DateHeader, body_text, body_html) :
        sender \in {BacSender, GenericSender}, body_text \in {"", "@media screen { }", None},
        body_html \in HtmlBodies \cup {"", None, Missing}}

SenderPool ==
    {BacSender, GenericSender, "Citi Alerts <alerts@citi.com.chase.com>", "info@BACCREDOMATIC.com",
     "Capital One <capitalone@notification.capitalone.com>", "alerts@wellsfargo.com",
     "baborigen@bankofamerica.com", "shop@example.org", "", None, Missing}

SenderEmails ==
    {Email("s", sender, subject, DateHeader, "You spent $42.19 at Trader Joe's on 03/12/2024", "") :
        sender \in SenderPool, subject \in {GenericSubject, None, Missing}}

SingleEmails == AmountEmails \cup DateEmails \cup FieldEmails \cup HtmlEmails \cup SenderEmails

BatchPool ==
    {Email("m1", BacSender, BacSubject, DateHeader, "Monto: 100.00 tarjeta ****1234", ""),
     Email("m2", BacSender, BacSubject, DateHeader, "sin monto", ""),
     Email("m3", GenericSender, GenericSubject, DateHeader, "You spent $42.19 at Trader Joe's", ""),
     Email("m4", None, GenericSubject, DateHeader, "You spent $42.19 at Trader Joe's", "")}

ParserInputs == {<<e>> : e \in SingleEmails} \cup Batches(BatchPool, MaxBatch)

Tx(id, merchant, raw_text, card_last_4) ==
    [email_id |-> id, date |-> "2024-03-15", amount |-> [n |-> 4219, s |-> 2],
     merchant |-> merchant, card_last_4 |-> card_last_4, transaction_type |-> "DEBIT",
     confidence |-> "1.0", raw_text |-> raw_text]

CategoryPhrases ==
    {"STARBUCKS ", "Airline ", "Gas ", "Electric ", "Water ", "XYZ "}

CategoryTransactions ==
    {Tx("c", merchant, raw_text, "1234") :
        merchant \in Texts(CategoryPhrases, MaxPhrases),
        raw_text \in {"", "compra en supermercado", "ATM withdrawal insurance"}}

TransactionPool ==
    {Tx("t1", "STARBUCKS COFFEE", "Compra STARBUCKS COFFEE", "1234"),
     Tx("t2", "Unknown Merchant", "sin comercio", ""),
     Tx("t3", None, "merchant is null", "1234"),
     Tx("t4", "UBER", "card key is absent", Missing)}

CategorizerInputs == {<<t>> : t \in CategoryTransactions} \cup Batches(TransactionPool, MaxBatch)

(***************************************************************************)
(* Fetch: "Fetch unread bank transaction emails via IMAP.py"               *)
(***************************************************************************)

\* bytes.split(): the blank-separated words of s from position i on; word is the
\* one being read
RECURSIVE SplitFrom(_, _, _)
SplitFrom(s, i, word) ==
    IF i > Len(s) THEN (IF word = "" THEN <<>> ELSE <<word>>)
    ELSE IF ch(s, i) = " "
    THEN (IF word = "" THEN <<>> ELSE <<word>>) \o SplitFrom(s, i + 1, "")
    ELSE SplitFrom(s, i + 1, word \o ch(s, i))

split(s) == SplitFrom(s, 1, "")

\* list[start:], a negative start counted from the end
slice_from(list, start) ==
    Let(IF start < 0 THEN (IF Len(list) + start < 0 THEN 0 ELSE Len(list) + start)
        ELSE (IF start > Len(list) THEN Len(list) ELSE start),
        LAMBDA first : SubSeq(list, first + 1, Len(list)))

\* list.reverse()
reverse(list) == [k \in 1..Len(list) |-> list[Len(list) + 1 - k]]

\* msg_ids once split, limited and reversed
limited_ids(data, max) == reverse(slice_from(split(data), 0 - max))

\* the EmailMessage main builds from the message the server holds under msg_id
email_msg_of(msg_id) == Email(msg_id, GenericSender, GenericSubject, DateHeader, "", "")

\* one iteration of main's loop on msg_id: mail.fetch gives status OK with the
\* message, gives another status or no data, or raises
fetch_iteration(st, msg_id, outcome) ==
    IF outcome = "OK" THEN [st EXCEPT !.emails = Append(@, email_msg_of(msg_id))] ELSE st

(***************************************************************************)
(* Mark: "Mark processed emails as read in Gmail.py"                       *)
(***************************************************************************)

\* the return value when email_ids is empty
nothing_to_mark ==
    [success |-> TRUE, processed |-> 0, total |-> 0, message |-> "No emails to mark as read"]

\* the return value after the loop
marked(processed, failed, ids) ==
    [success |-> TRUE, processed |-> processed, failed |-> failed, total |-> Len(ids),
     message |-> "Marked " \o IntToStr(processed) \o " of " \o IntToStr(Len(ids))
                 \o " emails as read"]

\* the loop body without the except clause: a store that raises leaves main
mark_iteration_reraise(st, email_id, outcome) ==
    [st EXCEPT !.stores = Append(@, [id |-> email_id, status |-> outcome]),
               !.processed_count = IF outcome = "OK" THEN @ + 1 ELSE @,
               !.failed_count = IF outcome = "NO" THEN @ + 1 ELSE @,
               !.pc = IF outcome = "raise" THEN "raised" ELSE @]

\* one iteration of main's loop on email_id: mail.store returns status OK,
\* returns another status, or raises
mark_iteration(st, email_id, outcome) ==
    [st EXCEPT !.stores = Append(@, [id |-> email_id, status |-> outcome]),
               !.processed_count = IF outcome = "OK" THEN @ + 1 ELSE @,
               !.failed_count = IF outcome = "OK" THEN @ ELSE @ + 1]

(***************************************************************************)
(* Upload: "Upload categorized transactions to Google Sheets.py"           *)
(***************************************************************************)

\* dict.get(key, default), the dict held as a record of the keys it has
get(d, key, default) == IF key \in DOMAIN d THEN d[key] ELSE default

\* a str in a field whose other values are floats
PyStr(s) == [str |-> s]

\* Python truthiness of a float-or-str value
NonZero(x) == IF "str" \in DOMAIN x THEN x.str # "" ELSE x.n # 0

\* float(x) for a float, and for a str made of digits and periods or of other characters
to_float(x) ==
    IF "str" \in DOMAIN x
    THEN (IF \A i \in 1..Len(x.str) : ch(x.str, i) \in Digit \cup {"."}
          THEN Float(x.str) ELSE ValueError)
    ELSE x

\* f"{float(parsing_confidence):.0%}", or str(parsing_confidence) when float() raises
confidence_str(parsing_confidence) ==
    IF parsing_confidence \in FloatReprs
    THEN IntToStr(10 * Tenths(parsing_confidence)) \o "%"
    ELSE Str(parsing_confidence)

\* the description column without the [:100]
snippet_whole(raw_description) == Str(raw_description)

\* str(raw_description)[:100]
snippet(raw_description) == Prefix(Str(raw_description), 100)

\* the try block of main's loop: the row of txn, or Raised when float(amount) raises
prepare_row(txn, processed_time) ==
    Let(get(txn, "amount", Zero), LAMBDA amount :
        IF NonZero(amount) /\ to_float(amount) = ValueError THEN Raised
        ELSE [raised |-> FALSE,
              value |-> <<processed_time,
                          Str(get(txn, "date", "")),
                          Str(get(txn, "merchant", "Unknown")),
                          IF NonZero(amount) THEN to_float(amount) ELSE Zero,
                          Str(get(txn, "category_emoji", "U+2753")) \o " "
                              \o Str(get(txn, "category", "Uncategorized")),
                          Str(get(txn, "transaction_type", "DEBIT")),
                          Str(get(txn, "card_last_4", get(txn, "card_last_four", ""))),
                          confidence_str(get(txn, "confidence",
                                             get(txn, "parsing_confidence", "0.0"))),
                          snippet(get(txn, "raw_text", get(txn, "raw_description", "")))>>])

\* one iteration of main's loop on txn; st holds main's locals
upload_iteration(st, txn, processed_time) ==
    Let(prepare_row(txn, processed_time), LAMBDA r :
        IF r.raised THEN st ELSE [st EXCEPT !.rows = Append(@, r.value)])

\* the return value when transactions is empty
nothing_to_upload ==
    [success |-> TRUE, rows_added |-> 0, message |-> "No transactions to upload",
     email_ids |-> <<>>]

\* the return value when rows is empty
nothing_prepared ==
    [success |-> FALSE, rows_added |-> 0, message |-> "All transactions failed to prepare",
     email_ids |-> <<>>]

\* the return value after the append request
uploaded(txns, prepared, resp, sheet_name) ==
    IF resp.status_code = 200
    THEN [success |-> TRUE, rows_added |-> Len(prepared),
          message |-> "Added " \o IntToStr(Len(prepared)) \o " transactions to " \o sheet_name,
          email_ids |-> [k \in 1..Len(txns) |-> get(txns[k], "email_id", "")]]
    ELSE [success |-> FALSE, rows_added |-> 0,
          message |-> "Failed to upload: " \o IntToStr(resp.status_code) \o " - " \o resp.text,
          email_ids |-> <<>>]

(***************************************************************************)
(* The inputs the mailbox and spreadsheet scripts are run on               *)
(***************************************************************************)

MaxEmails == 3      \* largest max_emails handed to the fetch main
MaxUnread == 4      \* most unread messages the search finds

\* the data of a search that found the messages 1..n
RECURSIVE Numbers(_)
Numbers(n) ==
    IF n = 0 THEN "" ELSE IF n = 1 THEN "1" ELSE Numbers(n - 1) \o " " \o IntToStr(n)

SearchResults ==
    {[status |-> status, data |-> Numbers(n)] : status \in {"OK", "NO"}, n \in 0..MaxUnread}

FetchOutcomes == {"OK", "NO", "raise"}
StoreOutcomes == {"OK", "NO", "raise"}

IdPool == {"7", "12", ""}
MarkInputs == Batches(IdPool, MaxBatch)

LongText ==
    "Compra aprobada en STARBUCKS COFFEE por un monto de USD 42.19 con su tarjeta terminada en 1234 el 15-03-2024 a las 14:22"

UploadPool ==
    {[email_id |-> "7", date |-> "2024-03-15", amount |-> [n |-> 4219, s |-> 2],
      merchant |-> "STARBUCKS COFFEE", card_last_4 |-> "1234", transaction_type |-> "DEBIT",
      confidence |-> "0.8999999999999999", raw_text |-> LongText,
      category |-> "Food & Dining", category_emoji |-> "U+1F354"],
     [email_id |-> "8", date |-> "2024-03-16", amount |-> Zero,
      merchant |-> "Unknown Merchant", card_last_4 |-> "", transaction_type |-> "CREDIT",
      confidence |-> "0.2", raw_text |-> "sin monto",
      category |-> "Other", category_emoji |-> "U+2753"],
     [email_id |-> "9", date |-> "2024-03-17", amount |-> [n |-> 125, s |-> 1],
      merchant |-> "UBER", card_last_four |-> "9876", transaction_type |-> "DEBIT",
      parsing_confidence |-> "1.0", raw_description |-> "Uber trip",
      category |-> "Transportation", category_emoji |-> "U+1F697"],
     [email_id |-> "12", date |-> "2024-03-18", amount |-> PyStr("N/A"),
      merchant |-> "ACME", card_last_4 |-> "1234", transaction_type |-> "DEBIT",
      confidence |-> "0.6", raw_text |-> "amount is not a number",
      category |-> "Shopping", category_emoji |-> "U+1F6CD"],
     [date |-> None, amount |-> PyStr("12.50"), merchant |-> "ACME", confidence |-> "high"]}

UploadInputs == Batches(UploadPool, MaxBatch)

Responses ==
    {[status_code |-> 200, text |-> "{}"], [status_code |-> 403, text |-> "PERMISSION_DENIED"]}

ProcessedTime == "2026-11-06 10:00:00"
SheetName == "Expenses"

CleanInputs ==
    {"", "5 &lt; 6 &gt; 4", "a &amp;lt; b", "Compra &amp; pago", "<p>Monto:</p><br/>$5.00",
     "  a \t b  ", "uno\n\n\ndos", "<td>x</td>", "plain text", "&quot;x&#39;s&quot;"}
    \cup Texts({"<b>", "x ", "&amp;", "lt;", "\n", "&nbsp;"}, MaxPhrases)

(***************************************************************************)
(* The state machine: one run of a script's main                           *)
(***************************************************************************)

Locals == [pc |-> pc, transactions |-> transactions, log |-> log, bank_id |-> bank_id,
           parsed |-> parsed, categorized |-> categorized]

Init ==
    /\ script \in {"parse", "categorize"}
    /\ max_emails = Unset /\ message_numbers = Unset /\ msg_ids = Unset
    /\ rows = Unset /\ response = Unset /\ result = Unset
    /\ email_ids = Unset /\ processed_count = Unset /\ failed_count = Unset /\ stores = Unset
    /\ clean_arg = Unset /\ clean_ret = Unset
    /\ pc = "loop"
    /\ idx = 0
    /\ bank_id = Unset
    /\ parsed = Unset
    /\ log = <<>>
    /\ categorized = <<>>
    /\ IF script = "parse"
       THEN emails \in ParserInputs /\ transactions = <<>>
       ELSE emails = <<>> /\ transactions \in CategorizerInputs

\* the parser main's loop body, on the next email
ParseEmail(today) ==
    /\ script = "parse" /\ pc = "loop" /\ idx < Len(emails)
    /\ \E st \in {parse_iteration(Locals, emails[idx + 1], today)} :
           /\ transactions' = st.transactions
           /\ log' = st.log
           /\ bank_id' = st.bank_id
           /\ parsed' = st.parsed
           /\ pc' = st.pc
    /\ idx' = idx + 1
    /\ UNCHANGED <<script, emails, categorized>>
    /\ UNCHANGED flow_vars

\* the parser main returns transactions (at once when emails is empty)
ParseReturn ==
    /\ script = "parse" /\ pc = "loop" /\ idx = Len(emails)
    /\ pc' = "returned"
    /\ UNCHANGED <<script, emails, idx, bank_id, parsed, log, transactions, categorized>>
    /\ UNCHANGED flow_vars

\* the categorizer main's loop body, on the next transaction
CategorizeOne ==
    /\ script = "categorize" /\ pc = "loop" /\ idx < Len(transactions)
    /\ \E st \in {categorize_iteration(Locals, idx + 1)} :
           /\ categorized' = st.categorized
           /\ transactions' = st.transactions
           /\ pc' = st.pc
    /\ idx' = idx + 1
    /\ UNCHANGED <<script, emails, bank_id, parsed, log>>
    /\ UNCHANGED flow_vars

\* the categorizer main returns categorized
CategorizeReturn ==
    /\ script = "categorize" /\ pc = "loop" /\ idx = Len(transactions)
    /\ pc' = "returned"
    /\ UNCHANGED <<script, emails, idx, bank_id, parsed, log, transactions, categorized>>
    /\ UNCHANGED flow_vars

Next ==
    \/ \E today \in Today : ParseEmail(today)
    \/ ParseReturn
    \/ CategorizeOne
    \/ CategorizeReturn

Spec == Init /\ [][Next]_vars

(***************************************************************************)
(* The state machine of the mailbox and spreadsheet scripts: one run of a  *)
(* script's main, or two calls of clean_html in a row                      *)
(***************************************************************************)

\* the locals of the scripts that are not running are Unset
FlowInit ==
    /\ pc = "start" /\ idx = 0 /\ emails = <<>> /\ result = Unset
    /\ bank_id = Unset /\ parsed = Unset /\ log = <<>> /\ categorized = <<>>
    /\ \/ /\ script = "fetch"
          /\ max_emails \in 0..MaxEmails /\ message_numbers \in SearchResults /\ msg_ids = <<>>
          /\ transactions = <<>> /\ rows = Unset /\ response = Unset
          /\ email_ids = Unset /\ processed_count = Unset /\ failed_count = Unset
          /\ stores = Unset /\ clean_arg = Unset /\ clean_ret = Unset
       \/ /\ script = "upload"
          /\ transactions \in UploadInputs /\ rows = <<>> /\ response = Unset
          /\ max_emails = Unset /\ message_numbers = Unset /\ msg_ids = Unset
          /\ email_ids = Unset /\ processed_count = Unset /\ failed_count = Unset
          /\ stores = Unset /\ clean_arg = Unset /\ clean_ret = Unset
       \/ /\ script = "mark"
          /\ email_ids \in MarkInputs /\ processed_count = Unset /\ failed_count = Unset
          /\ stores = <<>>
          /\ transactions = <<>> /\ rows = Unset /\ response = Unset
          /\ max_emails = Unset /\ message_numbers = Unset /\ msg_ids = Unset
          /\ clean_arg = Unset /\ clean_ret = Unset
       \/ /\ script = "clean_html"
          /\ clean_arg \in CleanInputs /\ clean_ret = Unset
          /\ transactions = <<>> /\ rows = Unset /\ response = Unset
          /\ max_emails = Unset /\ message_numbers = Unset /\ msg_ids = Unset
          /\ email_ids = Unset /\ processed_count = Unset /\ failed_count = Unset
          /\ stores = Unset

FlowLocals == [pc |-> pc, emails |-> emails, rows |-> rows, stores |-> stores,
               processed_count |-> processed_count, failed_count |-> failed_count]

\* the fetch main up to its loop: connect, search, and limit the ids found
FetchSearch(connected) ==
    /\ script = "fetch" /\ pc = "start"
    /\ IF ~ connected THEN pc' = "raised" /\ msg_ids' = msg_ids
       ELSE IF message_numbers.status # "OK" \/ message_numbers.data = ""
       THEN pc' = "returned" /\ msg_ids' = msg_ids
       ELSE pc' = "loop" /\ msg_ids' = limited_ids(message_numbers.data, max_emails)
    /\ UNCHANGED <<script, emails, idx, bank_id, parsed, log, transactions, categorized>>
    /\ UNCHANGED <<max_emails, message_numbers, rows, response, result, email_ids,
                   processed_count, failed_count, stores, clean_arg, clean_ret>>

\* the fetch main's loop body, on the next id
FetchOne(outcome) ==
    /\ script = "fetch" /\ pc = "loop" /\ idx < Len(msg_ids)
    /\ emails' = fetch_iteration(FlowLocals, msg_ids[idx + 1], outcome).emails
    /\ idx' = idx + 1
    /\ UNCHANGED <<script, pc, bank_id, parsed, log, transactions, categorized>>
    /\ UNCHANGED flow_vars

\* the fetch main logs out and returns emails
FetchReturn ==
    /\ script = "fetch" /\ pc = "loop" /\ idx = Len(msg_ids)
    /\ pc' = "returned"
    /\ UNCHANGED <<script, emails, idx, bank_id, parsed, log, transactions, categorized>>
    /\ UNCHANGED flow_vars

\* the upload main up to its loop; what ensure_headers returns is not used
UploadStart ==
    /\ script = "upload" /\ pc = "start"
    /\ IF Len(transactions) = 0
       THEN pc' = "returned" /\ result' = nothing_to_upload
       ELSE pc' = "loop" /\ result' = result
    /\ UNCHANGED <<script, emails, idx, bank_id, parsed, log, transactions, categorized>>
    /\ UNCHANGED <<max_emails, message_numbers, msg_ids, rows, response, email_ids,
                   processed_count, failed_count, stores, clean_arg, clean_ret>>

\* the upload main's loop body, on the next transaction
UploadRow ==
    /\ script = "upload" /\ pc = "loop" /\ idx < Len(transactions)
    /\ rows' = upload_iteration(FlowLocals, transactions[idx + 1], ProcessedTime).rows
    /\ idx' = idx + 1
    /\ UNCHANGED <<script, pc, emails, bank_id, parsed, log, transactions, categorized>>
    /\ UNCHANGED <<max_emails, message_numbers, msg_ids, response, result, email_ids,
                   processed_count, failed_count, stores, clean_arg, clean_ret>>

\* the upload main after its loop, with no row to append
UploadNothing ==
    /\ script = "upload" /\ pc = "loop" /\ idx = Len(transactions) /\ Len(rows) = 0
    /\ result' = nothing_prepared
    /\ pc' = "returned"
    /\ UNCHANGED <<script, emails, idx, bank_id, parsed, log, transactions, categorized>>
    /\ UNCHANGED <<max_emails, message_numbers, msg_ids, rows, response, email_ids,
                   processed_count, failed_count, stores, clean_arg, clean_ret>>

\* the upload main after its loop: the append request and the return
UploadAppend(resp) ==
    /\ script = "upload" /\ pc = "loop" /\ idx = Len(transactions) /\ Len(rows) > 0
    /\ response' = resp
    /\ result' = uploaded(transactions, rows, resp, SheetName)
    /\ pc' = "returned"
    /\ UNCHANGED <<script, emails, idx, bank_id, parsed, log, transactions, categorized>>
    /\ UNCHANGED <<max_emails, message_numbers, msg_ids, rows, email_ids,
                   processed_count, failed_count, stores, clean_arg, clean_ret>>

\* the mark main up to its loop: return at once on an empty list, else connect
MarkStart(connected) ==
    /\ script = "mark" /\ pc = "start"
    /\ IF Len(email_ids) = 0
       THEN /\ pc' = "returned" /\ result' = nothing_to_mark
            /\ UNCHANGED <<processed_count, failed_count>>
       ELSE IF ~ connected
       THEN pc' = "raised" /\ UNCHANGED <<result, processed_count, failed_count>>
       ELSE pc' = "loop" /\ processed_count' = 0 /\ failed_count' = 0 /\ result' = result
    /\ UNCHANGED <<script, emails, idx, bank_id, parsed, log, transactions, categorized>>
    /\ UNCHANGED <<max_emails, message_numbers, msg_ids, rows, response, email_ids,
                   stores, clean_arg, clean_ret>>

\* the mark main's loop body, on the next id
MarkOne(outcome) ==
    /\ script = "mark" /\ pc = "loop" /\ idx < Len(email_ids)
    /\ \E st \in {mark_iteration(FlowLocals, email_ids[idx + 1], outcome)} :
           /\ stores' = st.stores
           /\ processed_count' = st.processed_count
           /\ failed_count' = st.failed_count
           /\ pc' = st.pc
    /\ idx' = idx + 1
    /\ UNCHANGED <<script, emails, bank_id, parsed, log, transactions, categorized>>
    /\ UNCHANGED <<max_emails, message_numbers, msg_ids, rows, response, result, email_ids,
                   clean_arg, clean_ret>>

\* the mark main after its loop: log out, which may raise, and return the counts
MarkReturn(logged_out) ==
    /\ script = "mark" /\ pc = "loop" /\ idx = Len(email_ids)
    /\ IF logged_out
       THEN pc' = "returned" /\ result' = marked(processed_count, failed_count, email_ids)
       ELSE pc' = "raised" /\ result' = result
    /\ UNCHANGED <<script, emails, idx, bank_id, parsed, log, transactions, categorized>>
    /\ UNCHANGED <<max_emails, message_numbers, msg_ids, rows, response, email_ids,
                   processed_count, failed_count, stores, clean_arg, clean_ret>>

\* a call of clean_html: the first on the input, the second on what the first returned
CleanHtml ==
    /\ script = "clean_html" /\ pc \in {"start", "loop"} /\ idx < 2
    /\ clean_arg' = (IF idx = 0 THEN clean_arg ELSE clean_ret)
    /\ clean_ret' = clean_html(clean_arg')
    /\ idx' = idx + 1
    /\ pc' = IF idx = 0 THEN "loop" ELSE "returned"
    /\ UNCHANGED <<script, emails, bank_id, parsed, log, transactions, categorized>>
    /\ UNCHANGED <<max_emails, message_numbers, msg_ids, rows, response, result, email_ids,
                   processed_count, failed_count, stores>>

FlowNext ==
    \/ \E connected \in BOOLEAN : FetchSearch(connected)
    \/ \E outcome \in FetchOutcomes : FetchOne(outcome)
    \/ FetchReturn
    \/ UploadStart
    \/ UploadRow
    \/ UploadNothing
    \/ \E resp \in Responses : UploadAppend(resp)
    \/ \E connected \in BOOLEAN : MarkStart(connected)
    \/ \E outcome \in StoreOutcomes : MarkOne(outcome)
    \/ \E logged_out \in BOOLEAN : MarkReturn(logged_out)
    \/ CleanHtml

FlowSpec == FlowInit /\ [][FlowNext]_vars

(***************************************************************************)
(* Properties                                                              *)
(***************************************************************************)

\* the parser has processed at least one email; the last one is emails[idx]
Processed == script = "parse" /\ idx >= 1
LastEmail == emails[idx]
\* the last email processed gave a record, the last of transactions
Produced == Processed /\ log[idx].kind = "Parsed"
LastRecord == transactions[Len(transactions)]
\* the text the parser searched: raw_text is its first 500 characters, all of it here
LastText == LastRecord.raw_text
Whole(text) == Len(text) < 500

\* the parse of one email, whatever the day
ParseOf(e) ==
    IF detect_bank(Get(e, "sender", "")) = "bac_cr" THEN parse_bac_costa_rica(e, "2026-11-06")
    ELSE parse_generic(e, "2026-11-06")

\* the emails of the batch for which no amount pattern yields a positive amount
NoAmountEmails == {k \in 1..Len(emails) : ParseOf(emails[k]).amount = Zero}

\* C1: when main returns from a batch none of whose emails raised a fault, an
\* email for which no amount pattern gave a positive amount has no record: the
\* output is as long as the batch less the number of such emails, and no record
\* of the output has amount 0.0.
C1_NoAmountNoRecord ==
    (script = "parse" /\ pc = "returned" /\ \A k \in 1..Len(log) : log[k].kind = "Parsed") =>
        /\ Len(transactions) = Len(emails) - Cardinality(NoAmountEmails)
        /\ \A k \in 1..Len(transactions) : transactions[k].amount # Zero

\* what makes the processing of an email raise: sender.lower() or subject[:80] on
\* None, and in the BAC parser len(clean_body) on None
Faulty(e) ==
    \/ e.sender = None
    \/ e.subject = None
    \/ /\ detect_bank(Get(e, "sender", "")) = "bac_cr"
       /\ ~ Truthy(Get(e, "body_html", ""))
       /\ e.body_text = None

\* the ids of the first k emails that were processed without a fault, in order
RECURSIVE SoundIds(_)
SoundIds(k) ==
    IF k = 0 THEN <<>>
    ELSE IF Faulty(emails[k]) THEN SoundIds(k - 1)
    ELSE Append(SoundIds(k - 1), emails[k].id)

\* C2: on a list of email dicts (main's parameter type) main never raises;
\* every email processed so far left exactly one log entry, an ERROR with its
\* id exactly when its processing raised a fault; main returns only after the
\* whole batch; and the records are those of the fault-free emails, in the
\* emails' order, each with its email's id.
C2_FaultIsolated ==
    script = "parse" =>
        /\ pc \in {"loop", "returned"}
        /\ Len(log) = idx
        /\ pc = "returned" => idx = Len(emails)
        /\ \A k \in 1..idx :
            /\ log[k].id = emails[k].id
            /\ log[k].kind = IF Faulty(emails[k]) THEN "ERROR" ELSE "Parsed"
        /\ [k \in 1..Len(transactions) |-> transactions[k].email_id] = SoundIds(idx)

\* a batch of three whose second email raised, returned with the two other records
C2_FaultIsolated_witness ==
    /\ script = "parse" /\ pc = "returned" /\ Len(emails) = 3
    /\ log[2].kind = "ERROR" /\ Faulty(emails[2])
    /\ Len(transactions) = 2
    /\ transactions[1].email_id = emails[1].id /\ transactions[2].email_id = emails[3].id

\* the categorizer has processed at least one transaction; the last is transactions[idx]
Categorized == script = "categorize" /\ idx >= 1 /\ Len(categorized) = idx
\* the transaction has every key, and strings under the string keys
WellFormedTx(t) == \A key \in TransactionKeys \ {"amount"} : t[key] \notin {Missing, None}

\* how many keywords of category j occur in the lower-cased merchant or raw text
HitsInEither(kws, m, r) ==
    Cardinality({i \in 1..Len(kws) : Contains(kws[i], m) \/ Contains(kws[i], r)})
KeywordHits(j, t) == HitsInEither(CATEGORIES[j].keywords, Lower(t.merchant), Lower(t.raw_text))

\* C3: for a well-formed transaction the category returned is "Other" with the
\* question mark when no keyword of any category occurs, and otherwise the
\* category whose keyword count no category exceeds and no earlier category
\* in table order equals.
C3_HighestCountEarliest ==
    (Categorized /\ WellFormedTx(transactions[idx])) =>
        \A out \in {categorized[idx]} :
        \A hits \in {[j \in 1..Len(CATEGORIES) |-> KeywordHits(j, transactions[idx])]} :
            IF \A j \in 1..Len(CATEGORIES) : hits[j] = 0
            THEN out.category = "Other" /\ out.category_emoji = "U+2753"
            ELSE \E j \in 1..Len(CATEGORIES) :
                    /\ out.category = CATEGORIES[j].name
                    /\ out.category_emoji = CATEGORIES[j].emoji
                    /\ \A i \in 1..Len(CATEGORIES) : hits[i] <= hits[j]
                    /\ \A i \in 1..(j - 1) : hits[i] < hits[j]

\* two categories share the highest count and the earlier one was returned
C3_HighestCountEarliest_witness ==
    /\ Categorized /\ WellFormedTx(transactions[idx])
    /\ \E i, j \in 1..Len(CATEGORIES) :
        /\ i < j
        /\ KeywordHits(i, transactions[idx]) = KeywordHits(j, transactions[idx])
        /\ KeywordHits(i, transactions[idx]) >= 1
        /\ \A l \in 1..Len(CATEGORIES) :
            KeywordHits(l, transactions[idx]) <= KeywordHits(i, transactions[idx])
        /\ categorized[idx].category = CATEGORIES[i].name

\* what C4 says of a state of the categorizer's main
Additive ==
    /\ Len(categorized) = idx
    /\ pc = "returned" => idx = Len(transactions)
    /\ \A k \in 1..idx :
        /\ \A key \in TransactionKeys : categorized[k][key] = transactions[k][key]
        /\ DOMAIN categorized[k] = TransactionKeys \cup {"category", "category_emoji"}
        /\ ~ WellFormedTx(transactions[k]) =>
            categorized[k].category = "Other" /\ categorized[k].category_emoji = "U+2753"

\* C4: on a list of transaction dicts (main's parameter type) the
\* categorizer's main gives one record for each transaction, in order,
\* with the eight transaction fields of its input unchanged and the two
\* category fields added ("Other" when categorize_transaction raised), and no
\* step of main changes the input list.
C4_AdditiveNonDestructive ==
    /\ [](script = "categorize" => Additive)
    /\ [][script = "categorize" => transactions' = transactions]_vars

\* a batch of three returned whole, with a transaction that raised inside it
C4_AdditiveNonDestructive_witness ==
    /\ script = "categorize" /\ pc = "returned" /\ Len(transactions) = 3
    /\ Len(categorized) = 3
    /\ ~ WellFormedTx(transactions[2]) /\ categorized[2].category = "Other"
    /\ categorized[2].email_id = transactions[2].email_id
    /\ WellFormedTx(transactions[3]) /\ categorized[3].category # "Other"

\* the keyword lists of the parser that handled the last email
DebitList == IF bank_id = "bac_cr" THEN debit_keywords ELSE debit_kw
CreditList == IF bank_id = "bac_cr" THEN credit_keywords ELSE credit_kw
\* how many keywords of the list occur in the lower-cased text
HitsIn(kws, lower) == Cardinality({j \in 1..Len(kws) : Contains(kws[j], lower)})
Hits(kws, text) == HitsIn(kws, Lower(text))

\* C5: the type of a record is CREDIT exactly when more credit keywords than
\* debit keywords occur in the subject and body text, and DEBIT otherwise.
C5_TypeVote ==
    (Produced /\ Whole(LastText)) =>
        /\ LastRecord.transaction_type \in {"CREDIT", "DEBIT"}
        /\ LastRecord.transaction_type = "CREDIT"
            <=> Hits(CreditList, LastText) > Hits(DebitList, LastText)

\* both lists hit, the credit list more often, and the record is a CREDIT
C5_TypeVote_witness ==
    /\ Produced /\ Whole(LastText)
    /\ Hits(DebitList, LastText) >= 1
    /\ Hits(CreditList, LastText) > Hits(DebitList, LastText)
    /\ LastRecord.transaction_type = "CREDIT"

\* the entries of the bank table whose pattern occurs in the lower-cased sender
BankMatches(sender) == {j \in 1..Len(bank_map) : Contains(bank_map[j][1], Lower(sender))}

\* C6: the bank of an email is that of the first entry of the table, in its
\* declared order, whose pattern occurs in the lower-cased sender, and it is
\* "generic" exactly when no pattern occurs.
C6_FirstTableMatch ==
    (Processed /\ LastEmail.sender # None) =>
        LET matches == BankMatches(Get(LastEmail, "sender", ""))
        IN  /\ matches # {} => bank_id = bank_map[Min(matches)][2]
            /\ bank_id = "generic" <=> matches = {}

\* a sender in which the patterns of two banks occur, given the earlier bank
C6_FirstTableMatch_witness ==
    /\ Processed /\ LastEmail.sender # None
    /\ LET matches == BankMatches(Get(LastEmail, "sender", ""))
       IN  /\ \E i, j \in matches : bank_map[i][2] # bank_map[j][2]
           /\ bank_id = bank_map[Min(matches)][2]

\* the digits of a literal, its separators dropped
Digits(lit) == RemoveChar(RemoveChar(lit, ","), ".")
\* the value of a literal whose decimal separator is its k-th character
DecimalAt(lit, k) ==
    Float(Digits(SubSeq(lit, 1, k - 1)) \o "." \o Digits(SubSeq(lit, k + 1, Len(lit))))
\* the last place of character c in the literal, 0 when it has none
LastIndex(lit, c) ==
    LET at == {i \in 1..Len(lit) : ch(lit, i) = c}
    IN  IF at = {} THEN 0 ELSE CHOOSE i \in at : \A j \in at : j <= i

\* the locale rule: with a comma and a period the later one is the decimal
\* separator; with commas only, the comma is the decimal separator when exactly
\* two digits follow it; any other separator marks thousands
LocaleValue(lit) ==
    LET comma == LastIndex(lit, ",")
        period == LastIndex(lit, ".")
    IN  IF comma > 0 /\ period > 0
        THEN DecimalAt(lit, IF comma > period THEN comma ELSE period)
        ELSE IF comma > 0
        THEN (IF Len(lit) - comma = 2 THEN DecimalAt(lit, comma) ELSE Float(Digits(lit)))
        ELSE Float(lit)

\* the amount literal the parser of the last email matched and took its amount from
AmountLiteral_matched ==
    IF bank_id = "bac_cr"
    THEN LET am == bac_amount(LastText)
         IN  IF am.amount_found
             THEN Group(Search(amount_patterns[am.pattern], LastText, FALSE), LastText, 1)
             ELSE ""
    ELSE LET amount_match == Search(GenericAmount, LastText, FALSE)
         IN  IF amount_match.found THEN Group(amount_match, LastText, 1) ELSE ""

\* C7: the amount of a record is the value the locale rule gives the literal the
\* parser matched.
C7_LocaleRule ==
    (Produced /\ Whole(LastText) /\ AmountLiteral_matched # "") =>
        LastRecord.amount = LocaleValue(AmountLiteral_matched)

\* the label-anchored pattern of the BAC cascade: "Monto"
MontoPattern == amount_patterns[3]

\* C8: when the label-anchored "Monto" pattern matches the text of a BAC email
\* with a positive value, that value is the record's amount, whatever the
\* currency-symbol, currency-code and free-text patterns match.
C8_LabelAnchoredWins ==
    (Produced /\ bank_id = "bac_cr" /\ Whole(LastText)) =>
        LET label == Search(MontoPattern, LastText, FALSE)
            value == Float(RemoveChar(Group(label, LastText, 1), ","))
        IN  (label.found /\ value # ValueError /\ value.n > 0) => LastRecord.amount = value

\* YYYY-MM-DD: four digits, two digits, two digits, with hyphens between
IsoForm(d) ==
    /\ Len(d) = 10
    /\ ch(d, 5) = "-" /\ ch(d, 8) = "-"
    /\ \A i \in {1, 2, 3, 4, 6, 7, 9, 10} : ch(d, i) \in Digit

\* C9: the date of every record is non-empty and in YYYY-MM-DD form, and it is
\* the current processing date when no date literal occurs in the text and the
\* Date header does not parse.
C9_DateIsoForm ==
    Produced =>
        /\ IsoForm(LastRecord.date)
        /\ (/\ Whole(LastText)
            /\ ~ Search(IF bank_id = "bac_cr" THEN SubjectDate ELSE GenericDate,
                        IF bank_id = "bac_cr" THEN Get(LastEmail, "subject", "") ELSE LastText,
                        FALSE).found
            /\ parsedate_to_datetime(Get(LastEmail, "date", "")) = ValueError)
           => LastRecord.date \in Today

\* no None among the fields the parsers read
WellFormed(e) ==
    e.sender # None /\ e.subject # None /\ e.body_text # None /\ e.body_html # None

\* no merchant pattern of the parser that handled the last email matches
MerchantMiss ==
    IF bank_id = "bac_cr" THEN ~ Search(SubjectMerchant, Get(LastEmail, "subject", ""), FALSE).found
    ELSE \A j \in 1..Len(merchant_patterns) : ~ Search(merchant_patterns[j], LastText, TRUE).found
\* no card pattern of the parser that handled the last email matches
CardMiss ==
    IF bank_id = "bac_cr"
    THEN \A j \in 1..Len(card_patterns) : ~ Search(card_patterns[j], LastText, TRUE).found
    ELSE ~ Search(GenericCard, LastText, TRUE).found

\* C10: an email with no None field gives a record whatever the merchant and
\* card patterns find; a merchant miss leaves "Unknown Merchant" and a card miss
\* leaves "", each adding nothing to the confidence, which is the sum of the
\* weights of the date, of a positive amount and of the fields that were found;
\* and card_last_4 is "" or four digits.
C10_SoftMiss ==
    (Processed /\ WellFormed(LastEmail)) =>
        /\ log[idx].kind = "Parsed"
        /\ Whole(LastText) =>
            \A merchant_miss \in {MerchantMiss}, card_miss \in {CardMiss} :
                /\ merchant_miss => LastRecord.merchant = "Unknown Merchant"
                /\ card_miss => LastRecord.card_last_4 = ""
                /\ Tenths(LastRecord.confidence) =
                    2 + (IF LastRecord.amount.n > 0 THEN 4 ELSE 0)
                      + (IF merchant_miss THEN 0 ELSE 3) + (IF card_miss THEN 0 ELSE 1)
        /\ \/ LastRecord.card_last_4 = ""
           \/ /\ Len(LastRecord.card_last_4) = 4
              /\ \A i \in 1..4 : ch(LastRecord.card_last_4, i) \in Digit

\* a record with a positive amount made from an email that has neither merchant nor card
C10_SoftMiss_witness ==
    /\ Produced /\ WellFormed(LastEmail) /\ Whole(LastText)
    /\ MerchantMiss /\ CardMiss
    /\ LastRecord.merchant = "Unknown Merchant" /\ LastRecord.card_last_4 = ""
    /\ LastRecord.amount.n > 0
    /\ LastRecord.confidence = "0.6000000000000001"

(***************************************************************************)
(* Properties of the confidence sum and of clean_html                      *)
(***************************************************************************)

\* the fields of the last record that were found, 1 each
AmountFound == IF LastRecord.amount.n > 0 THEN 1 ELSE 0
MerchantFound == IF LastRecord.merchant # "Unknown Merchant" THEN 1 ELSE 0
DateFound == IF LastRecord.date # "" THEN 1 ELSE 0
CardFound == IF LastRecord.card_last_4 # "" THEN 1 ELSE 0

\* tenths * den = 10 * num: the confidence is num / den, to the nearest tenth of the float
IsRatio(tenths, num, den) == tenths * den = 10 * num

\* C11: the confidence of every record a parser produces is the arithmetic mean
\* of the confidences of its fields, a field that was found counting 1.0 and one
\* that was not counting 0.0: the mean over the four fields amount, merchant,
\* date and card, or over those of them that were found, or over these four and
\* the transaction type, or over amount, type and date with merchant and card
\* counted only when found.
C11_MeanOfFieldConfidences ==
    Produced =>
        \A tenths \in {Tenths(LastRecord.confidence)},
           found \in {AmountFound + MerchantFound + DateFound + CardFound} :
            \/ IsRatio(tenths, found, 4)
            \/ found > 0 /\ tenths = 10
            \/ IsRatio(tenths, found + 1, 5)
            \/ IsRatio(tenths, AmountFound + DateFound + 1 + MerchantFound + CardFound,
                       3 + MerchantFound + CardFound)

\* the text has no tag left in it
TagFree(t) == ~ Search(AnyTag, t, FALSE).found
\* the entities clean_html decodes
Entities == {"&nbsp;", "&amp;", "&lt;", "&gt;", "&quot;", "&#39;", "&apos;"}
\* the text has no blank at either end, no run of blanks, no tab, no blank line
\* and no entity
Normalized(t) ==
    /\ t = Strip(t)
    /\ ~ Contains("  ", t) /\ ~ Contains("\t", t)
    /\ ~ Search(BlankLines, t, FALSE).found
    /\ \A entity \in Entities : ~ Contains(entity, t)

\* C12: clean_html applied to what clean_html returned gives it back unchanged,
\* and clean_html applied to a text that has no tag and is already normalized
\* gives that text back.
C12_CleanIdempotent ==
    script = "clean_html" =>
        /\ idx = 2 => clean_ret = clean_arg
        /\ (idx >= 1 /\ TagFree(clean_arg) /\ Normalized(clean_arg)) => clean_ret = clean_arg

(***************************************************************************)
(* Properties of the upload, fetch and mark scripts                        *)
(***************************************************************************)

\* a categorized transaction as the scripts before the upload make it, or as the
\* upload's CategorizedTransaction declares it: the amount is a float
Typed(t) ==
    /\ {"date", "merchant", "amount", "category", "category_emoji", "transaction_type"}
           \subseteq DOMAIN t
    /\ "n" \in DOMAIN t.amount
    /\ \/ {"card_last_4", "confidence", "raw_text"} \subseteq DOMAIN t
       \/ {"card_last_four", "parsing_confidence", "raw_description"} \subseteq DOMAIN t

CardOf(t) == IF "card_last_4" \in DOMAIN t THEN t.card_last_4 ELSE t.card_last_four
ConfidenceOf(t) == IF "confidence" \in DOMAIN t THEN t.confidence ELSE t.parsing_confidence
RawOf(t) == IF "raw_text" \in DOMAIN t THEN t.raw_text ELSE t.raw_description

\* s is a whole number of percent, ten times tenths
IsPercent(s, tenths) ==
    /\ Len(s) >= 2 /\ ch(s, Len(s)) = "%"
    /\ \A i \in 1..(Len(s) - 1) : ch(s, i) \in Digit
    /\ StrToInt(SubSeq(s, 1, Len(s) - 1)) = 10 * tenths

\* row is the 9-column tuple of the transaction t
RowOf(row, t) ==
    /\ Len(row) = 9
    /\ row[1] = ProcessedTime
    /\ row[2] = t.date
    /\ row[3] = t.merchant
    /\ row[4] = t.amount
    /\ row[5] = t.category_emoji \o " " \o t.category
    /\ row[6] = t.transaction_type
    /\ row[7] = CardOf(t)
    /\ IsPercent(row[8], Tenths(ConfidenceOf(t)))
    /\ Len(row[9]) = (IF Len(RawOf(t)) < 100 THEN Len(RawOf(t)) ELSE 100)
    /\ row[9] = SubSeq(RawOf(t), 1, Len(row[9]))

\* C13: while the upload main goes through a list of categorized transactions
\* whose amounts are floats, rows holds one row for each transaction seen so far,
\* in input order, and each row is the 9-column tuple of its transaction
\* (processed time, date, merchant, amount, emoji and category, type, card
\* suffix, confidence as a whole percentage, snippet); the snippet of every row,
\* whatever the transaction, is the first 100 characters of the raw text at most.
C13_RowPerTransaction ==
    (script = "upload" /\ pc \in {"loop", "returned"}) =>
        /\ (\A k \in 1..idx : Typed(transactions[k])) =>
               /\ Len(rows) = idx
               /\ \A k \in 1..idx : RowOf(rows[k], transactions[k])
        /\ \A k \in 1..Len(rows) : Len(rows[k]) = 9 /\ Len(rows[k][9]) <= 100

\* the upload has made two rows of two typed transactions, the snippet of one cut at 100
C13_RowPerTransaction_witness ==
    /\ script = "upload" /\ pc = "returned" /\ Len(transactions) = 2 /\ Len(rows) = 2
    /\ \A k \in 1..2 : Typed(transactions[k])
    /\ Len(RawOf(transactions[1])) > 100 /\ Len(rows[1][9]) = 100
    /\ rows[2][8] = "100%"

\* the number the search data ends with: the messages found are 1..Found
Found == Len(split(message_numbers.data))

\* C14: the fetch main returns at most max_emails messages, for every
\* max_emails >= 0 and any number of unread messages; the messages returned are
\* among the max_emails most recent of the search result, most recent first.
C14_AtMostMaxEmails ==
    (script = "fetch" /\ pc = "returned") =>
        /\ Len(emails) <= max_emails
        /\ \A k \in 1..Len(emails) :
               /\ StrToInt(emails[k].id) > Found - max_emails
               /\ k > 1 => StrToInt(emails[k].id) < StrToInt(emails[k - 1].id)

\* the transactions whose row the loop prepared
PreparedTransactions == {k \in 1..Len(transactions) : ~ prepare_row(transactions[k], ProcessedTime).raised}

\* C15: the upload main reports an email id only for a transaction whose row was
\* appended: when the append response is not 200, or no row could be prepared,
\* email_ids is empty and rows_added is 0; on a 200 response rows_added is the
\* number of ids returned and every id returned is that of a transaction whose
\* row was in the append request.
C15_IdsOnlyForAppended ==
    (script = "upload" /\ pc = "returned") =>
        IF Len(transactions) > 0 /\ Len(rows) > 0 /\ response.status_code = 200
        THEN /\ result.rows_added = Len(result.email_ids)
             /\ \A j \in 1..Len(result.email_ids) :
                    \E k \in PreparedTransactions :
                        get(transactions[k], "email_id", "") = result.email_ids[j]
        ELSE result.email_ids = <<>> /\ result.rows_added = 0

\* C16: in the mark main, the stores made so far are those of the first ids of
\* the list, one each and in list order, whatever the earlier stores gave; a run
\* that got into the loop ends with one store made for every id; and the counts
\* returned for a non-empty list satisfy processed + failed = total =
\* len(email_ids), processed being the number of stores that returned OK.
C16_StoreEachOnce ==
    script = "mark" =>
        /\ Len(stores) = idx
        /\ \A k \in 1..idx : stores[k].id = email_ids[k]
        /\ (pc \in {"returned", "raised"} /\ Len(stores) > 0) => Len(stores) = Len(email_ids)
        /\ (pc = "returned" /\ Len(email_ids) > 0) =>
               /\ Len(stores) = Len(email_ids)
               /\ result.total = Len(email_ids)
               /\ result.processed + result.failed = result.total
               /\ result.processed = Cardinality({k \in 1..Len(stores) : stores[k].status = "OK"})

\* a run where a store raised, a later one returned OK, and the counts came back
C16_StoreEachOnce_witness ==
    /\ script = "mark" /\ pc = "returned" /\ Len(email_ids) = 3
    /\ stores[1].status = "raise" /\ stores[2].status = "NO" /\ stores[3].status = "OK"
    /\ result.processed = 1 /\ result.failed = 2

\* C17: in every record a parser produces the date is not empty and the
\* confidence is the sum of the weights of the fields found: 0.4 for a positive
\* amount, 0.3 for a merchant other than "Unknown Merchant", 0.2 for the date,
\* 0.1 for a card suffix; so it is at least 0.2 and at most 1.0.
C17_WeightSum ==
    Produced =>
        /\ LastRecord.date # ""
        /\ LastRecord.confidence \in FloatReprs
        /\ Tenths(LastRecord.confidence) =
               4 * AmountFound + 3 * MerchantFound + 2 * DateFound + CardFound
        /\ Tenths(LastRecord.confidence) >= 2
        /\ Tenths(LastRecord.confidence) <= 10

\* a record with only its date found, and so the least confidence
C17_WeightSum_witness ==
    /\ Produced
    /\ AmountFound = 0 /\ MerchantFound = 0 /\ CardFound = 0
    /\ LastRecord.confidence = "0.2"
====
